---- MODULE Spec2Model ----
(***************************************************************************)
(* Model of src/create_search_index.py: the ingestion drivers that fill a  *)
(* vector-search index from database rows, PDF files and crawled web       *)
(* pages, and the two fingerprint functions get_hash and get_file_hash.    *)
(*                                                                         *)
(* External collaborators (the embedder, the search index, the web site,   *)
(* the file system) are the environment: their answers are fixed in Init   *)
(* or chosen with \E at the call.                                          *)
(***************************************************************************)
EXTENDS Integers, Sequences, FiniteSets, TLC

VARIABLES
    \* ---- environment shared by the drivers
    model,            \* os.environ["EMBEDDINGS_MODEL"]
    embDim,           \* length of the vectors the embedder returns
    indexExists,      \* the search service holds an index named index_name
    sink,             \* the records of that index, one per id
    calls,            \* history of search_client.upload_documents invocations
    log,              \* logger output (each record tagged with run and row)
    \* ---- create_index_from_db / extract_text_from_db
    rows,             \* mycursor.fetchall()
    delete_existing,  \* argument of create_index_from_db
    run,              \* "first" or "second" invocation of create_index_from_db
    pc,               \* position of the database driver
    row_idx,          \* extract_text_from_db: row_idx
    chunks,           \* extract_text_from_db: chunks of the current row
    documents,        \* extract_text_from_db: documents (batch being built)
    docs,             \* create_index_from_db: loop variable docs
    exc,              \* the exception that ended the run, or NoExc
    sinkAfterFirst,   \* history: sink when the first run returned
    \* ---- create_index_from_pdfs / extract_text_from_pdfs
    pdfFiles,         \* os.listdir(pdf_dir), in listing order, with each file
    pdfPc,
    pdfIdx,           \* index of the file being read
    pdfPage,          \* page_num
    text_data,        \* extract_text_from_pdf: text_data of the current file
    pdfDocs,          \* extract_text_from_pdfs: text_data (all files)
    \* ---- extract_text_from_web_page / create_index_from_web_page
    site,             \* the web site: status and links of every page
    webPc,
    urls,             \* the work list
    webDocs,          \* documents
    fetchLog,         \* history: the URLs printed by 'Processing ...'
    \* ---- get_hash / get_file_hash called on their own
    hashPc,
    hashCall,         \* the call made: function, algorithm, argument
    hashResult        \* what the caller got

envVars == <<model, embDim, indexExists, sink, calls, log>>
dbVars == <<rows, delete_existing, run, pc, row_idx, chunks, documents, docs,
            exc, sinkAfterFirst>>
pdfVars == <<pdfFiles, pdfPc, pdfIdx, pdfPage, text_data, pdfDocs>>
webVars == <<site, webPc, urls, webDocs, fetchLog>>
hashVars == <<hashPc, hashCall, hashResult>>
vars == <<envVars, dbVars, pdfVars, webVars, hashVars>>

-----------------------------------------------------------------------------
(* Bounds of the model *)

MaxRows == 3
MaxPages == 2
MaxFetch == 6
DigestSpace == 4093

-----------------------------------------------------------------------------
(* Strings are sequences of one-character strings. *)

None == "None"
NoExc == [kind |-> "none"]

Last(s) == s[Len(s)]
Front(s) == SubSeq(s, 1, Len(s) - 1)

\* str.replace(old, new) for a one-character old
Replace(s, old, new) == [k \in 1..Len(s) |-> IF s[k] = old THEN new ELSE s[k]]

\* x in y for strings: x occurs in y as a contiguous substring
Contains(y, x) ==
    \E k \in 0..(Len(y) - Len(x)) : SubSeq(y, k + 1, k + Len(x)) = x

Digit(d) == <<"0", "1", "2", "3", "4", "5", "6", "7", "8", "9">>[d + 1]

\* str(n) for an int n >= 0
RECURSIVE StrInt(_)
StrInt(n) == IF n < 10 THEN <<Digit(n)>> ELSE StrInt(n \div 10) \o <<Digit(n % 10)>>

\* An element of a key is [t |-> "str", v |-> string] or [t |-> "int", v |-> n].
S(v) == [t |-> "str", v |-> v]
I(n) == [t |-> "int", v |-> n]
Str(e) == IF e.t = "int" THEN StrInt(e.v) ELSE e.v

\* str.encode('UTF-8') on the (ASCII) characters the model uses
Ord(c) ==
    CASE c = " " -> 32 [] c = "+" -> 43 [] c = "/" -> 47
      [] c = "0" -> 48 [] c = "1" -> 49 [] c = "2" -> 50 [] c = "3" -> 51
      [] c = "4" -> 52 [] c = "5" -> 53 [] c = "6" -> 54 [] c = "7" -> 55
      [] c = "8" -> 56 [] c = "9" -> 57
      [] c = "A" -> 65 [] c = "B" -> 66 [] c = "N" -> 78
      [] c = "a" -> 97 [] c = "b" -> 98 [] c = "o" -> 111 [] c = "s" -> 115
      [] c = "x" -> 120 [] c = "y" -> 121
Encode(s) == [k \in 1..Len(s) |-> Ord(s[k])]

-----------------------------------------------------------------------------
(* hashlib: a hash object is its running state; update folds bytes in.     *)
(* The digest space is finite, so distinct inputs may collide.             *)

hash_algorithms == {"md5", "sha1", "sha256", "sha512"}

\* str.lower() on the algorithm names the model uses
Lower(name) ==
    CASE name = "SHA256" -> "sha256"
      [] name = "Md5" -> "md5"
      [] OTHER -> name

HashNew(alg) ==
    CASE alg = "md5" -> 1 [] alg = "sha1" -> 2 [] alg = "sha256" -> 3
      [] alg = "sha512" -> 4

RECURSIVE HashUpdate(_, _)
HashUpdate(h, bytes) ==
    IF bytes = <<>> THEN h
    ELSE HashUpdate((h * 257 + Head(bytes) + 1) % DigestSpace, Tail(bytes))

HexChar(d) == <<"0", "1", "2", "3", "4", "5", "6", "7", "8", "9",
                "a", "b", "c", "d", "e", "f">>[d + 1]
HexDigest(h) == <<HexChar((h \div 256) % 16), HexChar((h \div 16) % 16), HexChar(h % 16)>>

Return(v) == [kind |-> "return", value |-> v]
Raise(type, args) == [kind |-> "raise", type |-> type, args |-> args]

\* Variant of UpdateAll: a separator byte is fed in after every element
RECURSIVE MutUpdateAll(_, _)
MutUpdateAll(h, content) ==
    IF content = <<>> THEN h
    ELSE MutUpdateAll(HashUpdate(h, Encode(Str(Head(content))) \o <<0>>), Tail(content))

RECURSIVE UpdateAll(_, _)
UpdateAll(h, content) ==
    IF content = <<>> THEN h
    ELSE UpdateAll(HashUpdate(h, Encode(Str(Head(content)))), Tail(content))

\* get_hash(content, algorithm): content is a sequence of key elements
get_hash(content, algorithm) ==
    IF Lower(algorithm) \notin hash_algorithms
    THEN Raise("ValueError", <<"Unsupported hash algorithm", algorithm>>)
    ELSE Return(HexDigest(UpdateAll(HashNew(Lower(algorithm)), content)))

BlockSize == 4096

\* iter(lambda: file.read(4096), b''): the blocks of the file, in order
RECURSIVE Blocks(_)
Blocks(bytes) ==
    IF bytes = <<>> THEN <<>>
    ELSE IF Len(bytes) <= BlockSize THEN <<bytes>>
    ELSE <<SubSeq(bytes, 1, BlockSize)>> \o Blocks(SubSeq(bytes, BlockSize + 1, Len(bytes)))

RECURSIVE UpdateBlocks(_, _)
UpdateBlocks(h, blocks) ==
    IF blocks = <<>> THEN h
    ELSE UpdateBlocks(HashUpdate(h, Head(blocks)), Tail(blocks))

\* What the try block of get_file_hash does: a value, or the exception raised.
\* file is [state |-> "ok", bytes |-> ...], or state "missing" / "denied".
FileHashTry(file, algorithm) ==
    IF Lower(algorithm) \notin hash_algorithms
    THEN Raise("ValueError", <<"Unsupported hash algorithm", algorithm>>)
    ELSE IF file.state = "missing" THEN Raise("FileNotFoundError", <<>>)
    ELSE IF file.state = "denied" THEN Raise("PermissionError", <<>>)
    ELSE Return(HexDigest(UpdateBlocks(HashNew(Lower(algorithm)), Blocks(file.bytes))))

\* get_file_hash(file_path, algorithm): every exception of the try block is
\* printed by one of the except clauses and the function falls off its end.
get_file_hash(file, algorithm) ==
    LET r == FileHashTry(file, algorithm)
    IN IF r.kind = "raise" THEN Return(None) ELSE r

-----------------------------------------------------------------------------
(* The embedder and the search index *)

Models == {"text-embedding-3-large", "text-embedding-ada-002"}
Dims == {1536, 3072}

\* create_index_definition: the dimension of the contentVector field
Dimensions(m) == IF m = "text-embedding-3-large" THEN 3072 ELSE 1536

\* embeddings.embed(input=text, model=model).data[0].embedding: a vector of
\* embDim floats determined by the text
Embed(text) == [dim |-> embDim, of |-> text]

\* The exception the sink raises when it rejects a batch
SinkError == Raise("HttpResponseError", <<"rejected">>)

\* upload of one record into an index keyed by id
UpsertOne(s, d) == {r \in s : r.id # d.id} \cup {d}

RECURSIVE Upsert(_, _)
Upsert(s, batch) ==
    IF batch = <<>> THEN s ELSE Upsert(UpsertOne(s, Head(batch)), Tail(batch))

LogRec(level, msg, fields) == [level |-> level, msg |-> msg] @@ fields

-----------------------------------------------------------------------------
(* Database path: rows *)

Description == <<"N", " ", "N">>

\* A row's content is the sequence of its header-scoped sections, each one
\* shorter than chunk_size: none, one or two sections.
RowSet ==
    {[description |-> Description, title |-> <<"A">>, content |-> c, format |-> "creole"] :
        c \in {<<>>, <<<<"x">>>>}}
    \cup {[description |-> Description, title |-> <<"B">>, content |-> <<<<"x">>, <<"y">>>>,
           format |-> "creole"],
          [description |-> Description, title |-> <<"B">>, content |-> <<<<"x">>>>,
           format |-> "html"]}

RECURSIVE SeqsUpTo(_, _)
SeqsUpTo(set, n) ==
    IF n = 0 THEN {<<>>}
    ELSE LET shorter == SeqsUpTo(set, n - 1)
         IN shorter \cup {Append(s, x) : s \in {t \in shorter : Len(t) = n - 1}, x \in set}

\* split_creole: one chunk per section when every section fits chunk_size
split_creole(creole) == [k \in 1..Len(creole) |-> [page_content |-> creole[k]]]

\* split_content(html_string, format)
split_content(html_string, format) ==
    IF format = "creole" THEN Return(split_creole(html_string))
    ELSE Raise("Exception", <<format>>)

RowUrl(row) ==
    <<"/">> \o Replace(row.description, " ", "+") \o <<"/">> \o Replace(row.title, " ", "+")

\* Variant of RecordId: the key also holds a value that differs between runs
MutRecordId(title, i, page_content) ==
    get_hash(<<S(title), I(i), S(page_content),
               S(IF run = "first" THEN <<"1">> ELSE <<"2">>)>>, "sha256").value

\* extract_text_from_db, lines 295-304: the record of chunk i (0-based) of row
RecordId(title, i, page_content) ==
    get_hash(<<S(title), I(i), S(page_content)>>, "sha256").value

DbRecord(row, i, chunk) ==
    [id |-> RecordId(row.title, i, chunk.page_content),
     content |-> chunk.page_content,
     filepath |-> RowUrl(row),
     title |-> row.title,
     url |-> RowUrl(row),
     contentVector |-> Embed(chunk.page_content)]

-----------------------------------------------------------------------------
(* Database path: create_index_from_db driving extract_text_from_db *)

CurrentRow == rows[row_idx]

\* Variant of UploadWanted: the test lets the empty batch through
MutUploadWanted(d) == Len(d) >= 0

\* line 388: the test that decides between upload and warning
UploadWanted(d) == Len(d) > 0

\* Variant of AddRecord: the record is inserted at the front
MutAddRecord(ds, d) == <<d>> \o ds

\* line 297: documents.append(record)
AddRecord(ds, d) == Append(ds, d)

Tag == [run |-> run, row |-> row_idx]

\* Variant of UploadFailed: no handler around the upload, the exception
\* leaves the for loop
MutUploadFailed(e) ==
    /\ log' = log
    /\ pc' = "aborted"
    /\ exc' = [kind |-> "upload", row |-> row_idx]

\* lines 393-394: the handler of an exception raised by upload_documents
UploadFailed(e) ==
    /\ log' = Append(log, LogRec("info", "Upload failed",
                                 [args |-> e.args, type |-> e.type] @@ Tag))
    /\ pc' = "next"
    /\ exc' = exc

\* lines 365-383: look the index up, delete it when asked to, create it.
\* create_index is outside every try: when the index is still there the
\* service may refuse, and the exception ends the run.
DbSetupIndex ==
    /\ pc = "start"
    /\ LET deleted == indexExists /\ delete_existing
           stillThere == indexExists /\ ~deleted
       IN /\ sink' = IF deleted THEN {} ELSE sink
          /\ log' = IF deleted
                    THEN Append(log, LogRec("info", "Found existing index, and deleted it", Tag))
                    ELSE log
          /\ \E refused \in (IF stillThere THEN BOOLEAN ELSE {FALSE}) :
                IF refused
                THEN /\ pc' = "aborted"
                     /\ exc' = [kind |-> "create_index", row |-> 0]
                     /\ indexExists' = indexExists
                ELSE /\ pc' = "next"
                     /\ exc' = exc
                     /\ indexExists' = TRUE
    /\ UNCHANGED <<model, embDim, calls, rows, delete_existing, run, row_idx, chunks,
                   documents, docs, sinkAfterFirst>>
    /\ UNCHANGED <<pdfVars, webVars, hashVars>>

\* line 283, no row left: the generator returns and the for loop ends
DbExhausted ==
    /\ pc = "next"
    /\ row_idx = Len(rows)
    /\ pc' = "done"
    /\ sinkAfterFirst' = IF run = "first" THEN sink ELSE sinkAfterFirst
    /\ UNCHANGED <<envVars, rows, delete_existing, run, row_idx, chunks, documents, docs, exc>>
    /\ UNCHANGED <<pdfVars, webVars, hashVars>>

\* Variant of DbSplitRow: the exception of split_content is swallowed and the
\* row yields an empty batch
MutDbSplitRow ==
    /\ pc = "next"
    /\ row_idx < Len(rows)
    /\ row_idx' = row_idx + 1
    /\ documents' = <<>>
    /\ LET row == rows[row_idx + 1]
           r == split_content(row.content, row.format)
       IN chunks' = IF r.kind = "return" THEN r.value ELSE <<>>
    /\ pc' = "embed"
    /\ UNCHANGED <<envVars, rows, delete_existing, run, docs, exc, sinkAfterFirst>>
    /\ UNCHANGED <<pdfVars, webVars, hashVars>>

\* lines 283-293: take the next row, start an empty batch, split its content
DbSplitRow ==
    /\ pc = "next"
    /\ row_idx < Len(rows)
    /\ row_idx' = row_idx + 1
    /\ documents' = <<>>
    /\ LET row == rows[row_idx + 1]
           r == split_content(row.content, row.format)
       IN IF r.kind = "return"
          THEN /\ chunks' = r.value
               /\ pc' = "embed"
               /\ exc' = exc
          ELSE /\ chunks' = chunks
               /\ pc' = "aborted"
               /\ exc' = [kind |-> "split", row |-> row_idx + 1]
    /\ UNCHANGED <<envVars, rows, delete_existing, run, docs, sinkAfterFirst>>
    /\ UNCHANGED <<pdfVars, webVars, hashVars>>

\* lines 294-304: fingerprint and embed the next chunk, append its record;
\* the embedding call may raise, which nothing catches
DbEmbedChunk ==
    /\ pc = "embed"
    /\ Len(documents) < Len(chunks)
    /\ LET i == Len(documents)
       IN \E failed \in BOOLEAN :
            IF failed
            THEN /\ pc' = "aborted"
                 /\ exc' = [kind |-> "embed", row |-> row_idx]
                 /\ documents' = documents
            ELSE /\ pc' = pc
                 /\ exc' = exc
                 /\ documents' = AddRecord(documents, DbRecord(CurrentRow, i, chunks[i + 1]))
    /\ UNCHANGED <<envVars, rows, delete_existing, run, row_idx, chunks, docs, sinkAfterFirst>>
    /\ UNCHANGED <<pdfVars, webVars, hashVars>>

\* line 306 and line 386: yield documents; the for loop binds it to docs
DbYield ==
    /\ pc = "embed"
    /\ Len(documents) = Len(chunks)
    /\ docs' = documents
    /\ pc' = "upload"
    /\ UNCHANGED <<envVars, rows, delete_existing, run, row_idx, chunks, documents, exc,
                   sinkAfterFirst>>
    /\ UNCHANGED <<pdfVars, webVars, hashVars>>

\* lines 387-394: upload the batch, or warn when it is empty
DbUpload ==
    /\ pc = "upload"
    /\ IF UploadWanted(docs)
       THEN \E accepted \in BOOLEAN :
              /\ calls' = Append(calls, [docs |-> docs, ok |-> accepted] @@ Tag)
              /\ IF accepted
                 THEN /\ sink' = Upsert(sink, docs)
                      /\ log' = Append(log, LogRec("info", "documents uploaded",
                                                   [count |-> Len(docs)] @@ Tag))
                      /\ pc' = "next"
                      /\ exc' = exc
                 ELSE /\ sink' = sink
                      /\ UploadFailed(SinkError)
       ELSE /\ log' = Append(log, LogRec("warning", "Nothing to upload", Tag))
            /\ pc' = "next"
            /\ UNCHANGED <<calls, sink, exc>>
    /\ UNCHANGED <<model, embDim, indexExists, rows, delete_existing, run, row_idx, chunks,
                   documents, docs, sinkAfterFirst>>
    /\ UNCHANGED <<pdfVars, webVars, hashVars>>

\* The script is started again over the same rows (lines 538-539).
DbRerun ==
    /\ pc = "done"
    /\ run = "first"
    /\ run' = "second"
    /\ delete_existing' \in BOOLEAN
    /\ pc' = "start"
    /\ row_idx' = 0
    /\ chunks' = <<>>
    /\ documents' = <<>>
    /\ docs' = <<>>
    /\ UNCHANGED <<envVars, rows, exc, sinkAfterFirst>>
    /\ UNCHANGED <<pdfVars, webVars, hashVars>>

PdfIdle ==
    /\ pdfFiles = <<>> /\ pdfPc = "idle" /\ pdfIdx = 0 /\ pdfPage = 0
    /\ text_data = <<>> /\ pdfDocs = <<>>

WebIdle ==
    /\ site = <<>> /\ webPc = "idle" /\ urls = <<>> /\ webDocs = <<>> /\ fetchLog = <<>>

HashIdle ==
    /\ hashPc = "idle" /\ hashCall = None /\ hashResult = None

DbIdle ==
    /\ rows = <<>> /\ delete_existing = FALSE /\ run = "first" /\ pc = "idle"
    /\ row_idx = 0 /\ chunks = <<>> /\ documents = <<>> /\ docs = <<>>
    /\ exc = NoExc /\ sinkAfterFirst = {}

EnvInit ==
    /\ model \in Models
    /\ embDim \in Dims
    /\ calls = <<>>
    /\ log = <<>>

Init ==
    /\ EnvInit
    /\ indexExists = FALSE
    /\ sink = {}
    /\ rows \in SeqsUpTo(RowSet, MaxRows)
    /\ delete_existing = FALSE      \* the argument's default (line 535)
    /\ run = "first"
    /\ pc = "start"
    /\ row_idx = 0
    /\ chunks = <<>>
    /\ documents = <<>>
    /\ docs = <<>>
    /\ exc = NoExc
    /\ sinkAfterFirst = {}
    /\ PdfIdle /\ WebIdle /\ HashIdle

Next ==
    \/ DbSetupIndex
    \/ DbExhausted
    \/ DbSplitRow
    \/ DbEmbedChunk
    \/ DbYield
    \/ DbUpload
    \/ DbRerun

Spec == Init /\ [][Next]_vars

-----------------------------------------------------------------------------
(* Database path: what the claims speak of *)

Runs == IF run = "first" THEN {"first"} ELSE {"first", "second"}

\* The upload step of row j of run r is over.
Processed(r, j) ==
    \/ r = "first" /\ run = "second"
    \/ r = run /\ (j < row_idx \/ (j = row_idx /\ pc \in {"next", "done"}))

\* The batch extract_text_from_db yields for a row that splits
BatchOf(row) ==
    LET chs == split_creole(row.content)
    IN [k \in 1..Len(chs) |-> DbRecord(row, k - 1, chs[k])]

\* The batch of a row that splits holds no record
EmptyBatch(row) == Len(split_creole(row.content)) = 0

Attempted(r, j) == \E k \in DOMAIN calls : calls[k].run = r /\ calls[k].row = j

Logged(r, j, level, msg) ==
    \E k \in DOMAIN log :
        /\ log[k].run = r /\ log[k].row = j
        /\ log[k].level = level /\ log[k].msg = msg

FailedCalls == {k \in DOMAIN calls : ~calls[k].ok}

\* C1: in the database path no call to the sink carries an empty batch, and
\* every empty batch that reached the upload step left a warning in the log
\* and no call.
C1_EmptyBatchSkipped ==
    /\ \A k \in DOMAIN calls : Len(calls[k].docs) >= 1
    /\ \A r \in Runs, j \in 1..Len(rows) :
          (Processed(r, j) /\ EmptyBatch(rows[j])) =>
              /\ Logged(r, j, "warning", "Nothing to upload")
              /\ ~Attempted(r, j)

C1_Witness ==
    /\ pc = "done"
    /\ \E j \in 1..Len(rows) : EmptyBatch(rows[j]) /\ Processed(run, j)
    /\ calls # <<>>

\* The failure of an upload is confined to its batch: it never ends the run,
\* every later row whose batch is not empty is still offered to the sink, in
\* row order, and the run ends after the last row.
UploadFailureIsolated ==
    /\ pc = "aborted" => exc.kind \in {"create_index", "split", "embed"}
    /\ \A k \in FailedCalls : \A j \in (calls[k].row + 1)..Len(rows) :
          (Processed(calls[k].run, j) /\ ~EmptyBatch(rows[j])) =>
              \E n \in DOMAIN calls :
                  n > k /\ calls[n].run = calls[k].run /\ calls[n].row = j
    /\ \A a, b \in DOMAIN calls :
          (a < b /\ calls[a].run = calls[b].run) => calls[a].row < calls[b].row
    /\ pc = "done" => row_idx = Len(rows)

\* The failure is logged with the exception's args and type.
UploadFailureLogged ==
    \A k \in FailedCalls :
        \E n \in DOMAIN log :
            /\ log[n].run = calls[k].run /\ log[n].row = calls[k].row
            /\ log[n].msg = "Upload failed"
            /\ log[n].args = SinkError.args /\ log[n].type = SinkError.type

\* The failure's log record states the number of records of the batch.
UploadFailureLoggedWithCount ==
    \A k \in FailedCalls :
        \E n \in DOMAIN log :
            /\ log[n].run = calls[k].run /\ log[n].row = calls[k].row
            /\ log[n].msg = "Upload failed"
            /\ "count" \in DOMAIN log[n]
            /\ log[n].count = Len(calls[k].docs)

RECURSIVE IdsFrom(_, _)
IdsFrom(cs, r) ==
    IF cs = <<>> THEN <<>>
    ELSE IF Head(cs).run = r
         THEN <<[n \in 1..Len(Head(cs).docs) |-> Head(cs).docs[n].id]>> \o IdsFrom(Tail(cs), r)
         ELSE IdsFrom(Tail(cs), r)

SubmittedIds(r) == IdsFrom(calls, r)

C4_VectorLengthMatchesModel ==
    \A k \in DOMAIN calls : \A n \in DOMAIN calls[k].docs :
        calls[k].docs[n].contentVector.dim = Dimensions(model)

\* The row whose batch the loop variable docs is bound to: the row just
\* yielded, or the previous one while the generator builds the next batch.
DocsRow == IF pc \in {"upload", "next", "done"} THEN row_idx ELSE row_idx - 1

\* The rows whose embedded records the process holds
HeldRows ==
    (IF documents # <<>> THEN {row_idx} ELSE {})
    \cup (IF docs # <<>> THEN {DocsRow} ELSE {})

Offered(r, j) ==
    \E k \in DOMAIN log :
        /\ log[k].run = r /\ log[k].row = j
        /\ log[k].msg \in {"documents uploaded", "Upload failed", "Nothing to upload"}

\* One row at a time: while row k is being built or waits for its upload,
\* every earlier row has been offered and row k has not; each call carries
\* the whole batch of one row, in ascending sequence_index order (stated of
\* the latest call: calls only grows, so every call is the latest one in the
\* state that follows it).
OneRowAtATime ==
    /\ pc \in {"embed", "upload"} =>
          /\ \A j \in 1..(row_idx - 1) : Offered(run, j)
          /\ ~Offered(run, row_idx)
    /\ \A k \in DOMAIN log : log[k].run = run => log[k].row <= row_idx
    /\ calls # <<>> => Last(calls).docs = BatchOf(rows[Last(calls).row])
    /\ pc = "upload" => docs = BatchOf(CurrentRow)

RECURSIVE Replay(_, _)
Replay(s, cs) ==
    IF cs = <<>> THEN s
    ELSE Replay(IF Head(cs).ok THEN Upsert(s, Head(cs).docs) ELSE s, Tail(cs))

CallsSinceDeletion ==
    IF run = "second" /\ delete_existing /\ pc # "start"
    THEN SelectSeq(calls, LAMBDA c : c.run = "second")
    ELSE calls

\* C10: an error while the batch of row k is built ends the run: no call of
\* this run carries row k or a later row, nothing more can happen, and the
\* sink holds what the accepted uploads before it left there.
C10_BuildErrorEndsRun ==
    /\ \A k \in DOMAIN calls : \A j \in 1..calls[k].row : rows[j].format = "creole"
    /\ (pc = "aborted" /\ exc.kind \in {"split", "embed"}) =>
          /\ \A k \in DOMAIN calls : calls[k].run = run => calls[k].row < exc.row
          /\ exc.row = row_idx
          /\ ~ENABLED Next
          /\ sink = Replay({}, CallsSinceDeletion)

C10_Witness ==
    /\ pc = "aborted" /\ exc.kind = "split" /\ exc.row = 2
    /\ Len(rows) = 3 /\ rows[3].format = "creole" /\ rows[3].content # <<>>
    /\ \E k \in DOMAIN calls : calls[k].run = run /\ calls[k].row = 1 /\ calls[k].ok
    /\ sink # {}

-----------------------------------------------------------------------------
(* PDF path: create_index_from_pdfs driving extract_text_from_pdfs *)

PdfDir == <<"d">>
PdfNames == {<<"a", ".", "p">>, <<"b", ".", "p">>}
PdfBytes == {<<37, 80>>, <<37, 68>>}

\* A file of the directory: its name, its bytes and its number of pages
PdfFileSet ==
    {[name |-> n, bytes |-> b, page_count |-> c] :
        n \in PdfNames, b \in PdfBytes, c \in 0..MaxPages}

\* os.listdir(pdf_dir): the files in some order, no name twice
Listings ==
    {<<>>} \cup {<<f>> : f \in PdfFileSet}
    \cup {fg \in {<<f, g>> : f \in PdfFileSet, g \in PdfFileSet} : fg[1].name # fg[2].name}

\* os.path.join(pdf_dir, file)
PdfPath(name) == PdfDir \o <<"/">> \o name

\* os.path.splitext(file_name)[0]: the name up to its last dot
SplitExtStem(name) ==
    LET dots == {k \in 1..Len(name) : name[k] = "."}
    IN IF dots = {} THEN name
       ELSE SubSeq(name, 1, (CHOOSE k \in dots : \A m \in dots : m <= k) - 1)

\* page.get_text()
PageText(file, page_num) == IF page_num % 2 = 0 THEN <<"x">> ELSE <<"y">>

\* Variant of PdfRecordId: the id is the hash of the file's bytes followed by
\* the page number
MutPdfRecordId(file, page_num) ==
    get_file_hash([state |-> "ok", bytes |-> file.bytes \o <<page_num>>], "sha256").value

\* line 181: id = get_file_hash(pdf_path); the document was just opened, so
\* the file is there and readable
PdfRecordId(file, page_num) ==
    get_file_hash([state |-> "ok", bytes |-> file.bytes], "sha256").value

\* lines 179-190: the record of one page
PdfRecord(file, page_num) ==
    [id |-> PdfRecordId(file, page_num),
     content |-> PageText(file, page_num),
     filepath |-> file.name,
     title |-> SplitExtStem(file.name),
     url |-> PdfPath(file.name),
     contentVector |-> Embed(PageText(file, page_num))]

PdfTag == [run |-> "pdf", row |-> 0]

\* lines 398-408: delete the index when it exists, create it
PdfSetupIndex ==
    /\ pdfPc = "start"
    /\ sink' = {}
    /\ indexExists' = TRUE
    /\ log' = IF indexExists
              THEN Append(log, LogRec("info", "Found existing index, and deleted it", PdfTag))
              ELSE log
    /\ pdfPc' = "files"
    /\ UNCHANGED <<model, embDim, calls, pdfFiles, pdfIdx, pdfPage, text_data, pdfDocs>>
    /\ UNCHANGED <<dbVars, webVars, hashVars>>

\* lines 164-176: the next file of the listing is opened
PdfOpenFile ==
    /\ pdfPc = "files"
    /\ pdfIdx < Len(pdfFiles)
    /\ pdfIdx' = pdfIdx + 1
    /\ text_data' = <<>>
    /\ pdfPage' = 0
    /\ pdfPc' = "pages"
    /\ UNCHANGED <<envVars, pdfFiles, pdfDocs>>
    /\ UNCHANGED <<dbVars, webVars, hashVars>>

\* lines 178-190: one page: its text, the id, the embedding, the record
PdfPage ==
    /\ pdfPc = "pages"
    /\ pdfPage < pdfFiles[pdfIdx].page_count
    /\ \E failed \in BOOLEAN :
          IF failed
          THEN /\ pdfPc' = "aborted"
               /\ UNCHANGED <<text_data, pdfPage>>
          ELSE /\ text_data' = Append(text_data, PdfRecord(pdfFiles[pdfIdx], pdfPage))
               /\ pdfPage' = pdfPage + 1
               /\ pdfPc' = pdfPc
    /\ UNCHANGED <<envVars, pdfFiles, pdfIdx, pdfDocs>>
    /\ UNCHANGED <<dbVars, webVars, hashVars>>

\* lines 192 and 167: return text_data; text_data.extend(...)
PdfCloseFile ==
    /\ pdfPc = "pages"
    /\ pdfPage = pdfFiles[pdfIdx].page_count
    /\ pdfDocs' = pdfDocs \o text_data
    /\ pdfPc' = "files"
    /\ UNCHANGED <<envVars, pdfFiles, pdfIdx, pdfPage, text_data>>
    /\ UNCHANGED <<dbVars, webVars, hashVars>>

\* lines 168 and 411-421: all files read; one upload of everything, outside
\* every try
PdfUpload ==
    /\ pdfPc = "files"
    /\ pdfIdx = Len(pdfFiles)
    /\ \E accepted \in BOOLEAN :
          /\ calls' = Append(calls, [docs |-> pdfDocs, ok |-> accepted] @@ PdfTag)
          /\ IF accepted
             THEN /\ sink' = Upsert(sink, pdfDocs)
                  /\ log' = Append(log, LogRec("info", "Uploaded documents",
                                               [count |-> Len(pdfDocs)] @@ PdfTag))
                  /\ pdfPc' = "done"
             ELSE /\ pdfPc' = "rejected"
                  /\ UNCHANGED <<sink, log>>
    /\ UNCHANGED <<model, embDim, indexExists, pdfFiles, pdfIdx, pdfPage, text_data, pdfDocs>>
    /\ UNCHANGED <<dbVars, webVars, hashVars>>

StaleRecord ==
    [id |-> <<"0", "0", "0">>, content |-> <<"x">>, filepath |-> <<"o">>, title |-> <<"o">>,
     url |-> <<"o">>, contentVector |-> [dim |-> 1536, of |-> <<"x">>]]

InitPdf ==
    /\ EnvInit
    /\ indexExists \in BOOLEAN
    /\ sink = IF indexExists THEN {StaleRecord} ELSE {}
    /\ pdfFiles \in Listings
    /\ pdfPc = "start"
    /\ pdfIdx = 0
    /\ pdfPage = 0
    /\ text_data = <<>>
    /\ pdfDocs = <<>>
    /\ DbIdle /\ WebIdle /\ HashIdle

NextPdf ==
    \/ PdfSetupIndex
    \/ PdfOpenFile
    \/ PdfPage
    \/ PdfCloseFile
    \/ PdfUpload

SpecPdf == InitPdf /\ [][NextPdf]_vars

\* The whole-file hash of a file's bytes
FileId(bytes) ==
    HexDigest(UpdateBlocks(HashNew("sha256"), Blocks(bytes)))

RecordsOf(ds, name) == SelectSeq(ds, LAMBDA d : d.filepath = name)

ClosedFiles == IF pdfPc \in {"pages", "aborted"} THEN 1..(pdfIdx - 1) ELSE 1..pdfIdx

\* C5: every page of a file yields one record; all records of a file carry
\* the hash of the file's bytes, whatever the page and the file's name; once
\* uploaded, the index holds at most one record per distinct file content.
C5_OneIdPerFile ==
    /\ pdfPc = "pages" =>
          /\ Len(text_data) = pdfPage
          /\ \A k \in DOMAIN text_data : text_data[k].id = FileId(pdfFiles[pdfIdx].bytes)
    /\ pdfPc # "idle" =>
          \A j \in ClosedFiles :
              LET recs == RecordsOf(pdfDocs, pdfFiles[j].name)
              IN /\ Len(recs) = pdfFiles[j].page_count
                 /\ \A k \in DOMAIN recs : recs[k].id = FileId(pdfFiles[j].bytes)
    /\ pdfPc = "done" =>
          /\ Cardinality(sink) <=
                Cardinality({pdfFiles[j].bytes : j \in DOMAIN pdfFiles})
          /\ \A r \in sink : \E j \in DOMAIN pdfFiles :
                pdfFiles[j].page_count > 0 /\ r.id = FileId(pdfFiles[j].bytes)

C5_Witness ==
    /\ pdfPc = "done"
    /\ Len(pdfFiles) = 2
    /\ pdfFiles[1].bytes = pdfFiles[2].bytes
    /\ pdfFiles[1].page_count = 2
    /\ pdfFiles[2].page_count = 2
    /\ Len(pdfDocs) = 4
    /\ Cardinality(sink) = 1

-----------------------------------------------------------------------------
(* Web path: create_index_from_web_page driving extract_text_from_web_page *)

initial_url == <<"s">>
WebPages == {<<"s">>, <<"s", "a">>, <<"s", "b">>}
Offsite == <<"o">>

\* The a[href] elements of a page, in document order
LinkLists ==
    {<<>>, <<<<"s", "a">>>>, <<<<"s", "b">>>>, <<<<"s">>>>,
     <<<<"s", "a">>, <<"s", "b">>>>, <<Offsite, <<"s", "b">>>>}

\* What requests.get answers for each page of the site
Sites == [WebPages -> [status_code : {200, 404}, links : LinkLists]]

\* soup.getText()
WebText(url) == <<"x">> \o url

\* get_hash(text): the loop of get_hash runs over the characters of the text
CharsOf(text) == [k \in 1..Len(text) |-> S(<<text[k]>>)]

\* lines 230-239: the record of a page
WebRecord(url) ==
    [id |-> get_hash(CharsOf(WebText(url)), "sha256").value,
     content |-> WebText(url),
     filepath |-> url,
     title |-> url,
     url |-> url,
     contentVector |-> Embed(WebText(url))]

\* Variant of Pop: the first element is taken (list.pop(0))
MutPop(list) == [item |-> Head(list), rest |-> Tail(list)]

\* line 220: urls.pop() takes the last element
Pop(list) == [item |-> Last(list), rest |-> Front(list)]

\* Variant of Followed: links already fetched or already waiting are dropped
MutFollowed(links) ==
    SelectSeq(links, LAMBDA link_url :
        /\ Contains(link_url, initial_url)
        /\ \A k \in DOMAIN fetchLog : fetchLog[k] # link_url
        /\ \A k \in DOMAIN urls : urls[k] # link_url)

\* lines 243-246: the links appended to the work list, in document order
Followed(links) == SelectSeq(links, LAMBDA link_url : Contains(link_url, initial_url))

WebTag == [run |-> "web", row |-> 0]

\* lines 339-349 and 215-217: the index is deleted and created, the crawl
\* starts with the seed on the work list
WebStart ==
    /\ webPc = "start"
    /\ sink' = {}
    /\ indexExists' = TRUE
    /\ log' = IF indexExists
              THEN Append(log, LogRec("info", "Found existing index, and deleted it", WebTag))
              ELSE log
    /\ webDocs' = <<>>
    /\ urls' = <<initial_url>>
    /\ webPc' = "loop"
    /\ UNCHANGED <<model, embDim, calls, site, fetchLog>>
    /\ UNCHANGED <<dbVars, pdfVars, hashVars>>

\* lines 219-248: one turn of the while loop
WebFetch ==
    /\ webPc = "loop"
    /\ urls # <<>>
    /\ Len(fetchLog) < MaxFetch
    /\ LET p == Pop(urls)
           url == p.item
           page == site[url]
       IN /\ fetchLog' = Append(fetchLog, url)
          /\ IF page.status_code = 200
             THEN \E failed \in BOOLEAN :
                    IF failed
                    THEN /\ webPc' = "aborted"
                         /\ urls' = p.rest
                         /\ webDocs' = webDocs
                    ELSE /\ webPc' = webPc
                         /\ webDocs' = Append(webDocs, WebRecord(url))
                         /\ urls' = p.rest \o Followed(page.links)
             ELSE /\ urls' = p.rest
                  /\ UNCHANGED <<webDocs, webPc>>
    /\ UNCHANGED <<envVars, site>>
    /\ UNCHANGED <<dbVars, pdfVars, hashVars>>

\* lines 219 and 250: the work list is empty, the documents are returned
WebReturn ==
    /\ webPc = "loop"
    /\ urls = <<>>
    /\ webPc' = "returned"
    /\ UNCHANGED <<envVars, site, urls, webDocs, fetchLog>>
    /\ UNCHANGED <<dbVars, pdfVars, hashVars>>

\* lines 354-362: one upload of everything, outside every try
WebUpload ==
    /\ webPc = "returned"
    /\ \E accepted \in BOOLEAN :
          /\ calls' = Append(calls, [docs |-> webDocs, ok |-> accepted] @@ WebTag)
          /\ IF accepted
             THEN /\ sink' = Upsert(sink, webDocs)
                  /\ log' = Append(log, LogRec("info", "documents uploaded",
                                               [count |-> Len(webDocs)] @@ WebTag))
                  /\ webPc' = "done"
             ELSE /\ webPc' = "rejected"
                  /\ UNCHANGED <<sink, log>>
    /\ UNCHANGED <<model, embDim, indexExists, site, urls, webDocs, fetchLog>>
    /\ UNCHANGED <<dbVars, pdfVars, hashVars>>

InitWeb ==
    /\ EnvInit
    /\ indexExists = FALSE
    /\ sink = {}
    /\ site \in Sites
    /\ webPc = "start"
    /\ urls = <<>>
    /\ webDocs = <<>>
    /\ fetchLog = <<>>
    /\ DbIdle /\ PdfIdle /\ HashIdle

NextWeb ==
    \/ WebStart
    \/ WebFetch
    \/ WebReturn
    \/ WebUpload

SpecWeb == InitWeb /\ [][NextWeb]_vars

\* The same-site links of a page that answers 200
Edges(u) ==
    IF site[u].status_code = 200
    THEN {v \in WebPages : \E k \in DOMAIN site[u].links :
              site[u].links[k] = v /\ Contains(v, initial_url)}
    ELSE {}

RECURSIVE Closure(_)
Closure(set) ==
    LET more == set \cup UNION {Edges(u) : u \in set}
    IN IF more = set THEN set ELSE Closure(more)

ReachableFromSeed == Closure({initial_url})

\* A cycle of same-site links lies within reach of the seed
Cyclic == \E u \in ReachableFromSeed : Edges(u) # {} /\ u \in Closure(Edges(u))

Occurrences(seq, x) == Cardinality({k \in DOMAIN seq : seq[k] = x})

DocUrls == [k \in DOMAIN webDocs |-> webDocs[k].url]

Answered200(seq) == SelectSeq(seq, LAMBDA u : site[u].status_code = 200)

\* C6: the crawl returns only on a site whose same-site link graph within
\* reach of the seed has no cycle; every URL taken from the work list is
\* fetched, and recorded when it answers 200, however often it was fetched
\* before.
C6_ReturnsOnlyIfAcyclic ==
    /\ webPc \in {"returned", "done", "rejected"} => ~Cyclic
    /\ Cyclic /\ webPc = "loop" => urls # <<>>
    /\ webPc \in {"loop", "returned", "done", "rejected"} => DocUrls = Answered200(fetchLog)
    /\ webPc = "aborted" => DocUrls = Answered200(Front(fetchLog))

C6_Witness ==
    /\ Cyclic
    /\ webPc = "loop"
    /\ Len(fetchLog) = MaxFetch
    /\ \E k \in DOMAIN webDocs : Occurrences(DocUrls, webDocs[k].url) >= 3

\* A site without a cycle on which the crawl returned after fetching one
\* page twice
C6_WitnessAcyclic ==
    /\ ~Cyclic
    /\ webPc = "done"
    /\ \E k \in DOMAIN webDocs : Occurrences(DocUrls, webDocs[k].url) = 2

\* C7 as stated: breadth-first, the URL fetched is the one that has waited
\* longest on the work list.
C7_BreadthFirst ==
    [][fetchLog' # fetchLog => Last(fetchLog') = Head(urls)]_vars

\* C7 as amended: last in, first out: the URL fetched is the one placed last
\* on the work list, the others keep waiting in their order, and the links
\* of the fetched page are placed behind them.
C7_LastInFirstOut ==
    [][fetchLog' # fetchLog =>
          /\ fetchLog' = Append(fetchLog, Last(urls))
          /\ \E added \in SeqsUpTo(WebPages, 2) : urls' = Front(urls) \o added]_vars

C7_Witness ==
    /\ Len(fetchLog) >= 3
    /\ site[initial_url].links = <<<<"s", "a">>, <<"s", "b">>>>
    /\ fetchLog[2] = <<"s", "b">>
    /\ fetchLog[Len(fetchLog)] = <<"s", "a">>
    /\ Len(fetchLog) > 3

-----------------------------------------------------------------------------
(* get_hash and get_file_hash called with an algorithm name *)

AlgNames == {"md5", "sha1", "sha256", "sha512", "SHA256", "Md5", "crc32", "sha3"}

\* Keys as extract_text_from_db and extract_text_from_web_page build them
HashKeys ==
    {<<>>,
     <<S(<<"A">>), I(0), S(<<"x">>)>>,
     <<S(<<"A">>), I(1), S(<<"x">>)>>,
     <<S(<<"A">>), I(10), S(<<"x">>)>>,
     <<S(<<"A", "1">>), I(0), S(<<"x">>)>>,
     <<S(<<"B">>), I(0), S(<<"y">>)>>,
     CharsOf(<<"x", "s">>),
     CharsOf(<<"x", "s", "a">>)}

HashFiles ==
    {[state |-> "ok", bytes |-> <<>>],
     [state |-> "ok", bytes |-> <<37, 80>>],
     [state |-> "ok", bytes |-> <<37, 68>>],
     [state |-> "missing"],
     [state |-> "denied"]}

\* What the caller of a function sees: "returned" with a value, or "raised"
Outcome(r) == IF r.kind = "raise" THEN "raised" ELSE "returned"

\* a call get_hash(content, algorithm)
HashCallGetHash ==
    \E content \in HashKeys, algorithm \in AlgNames :
        /\ hashCall' = [fn |-> "get_hash", algorithm |-> algorithm, arg |-> content]
        /\ hashResult' = get_hash(content, algorithm)
        /\ hashPc' = Outcome(get_hash(content, algorithm))
        /\ UNCHANGED <<envVars, dbVars, pdfVars, webVars>>

\* a call get_file_hash(file_path, algorithm)
HashCallGetFileHash ==
    \E file \in HashFiles, algorithm \in AlgNames :
        /\ hashCall' = [fn |-> "get_file_hash", algorithm |-> algorithm, arg |-> file]
        /\ hashResult' = get_file_hash(file, algorithm)
        /\ hashPc' = Outcome(get_file_hash(file, algorithm))
        /\ UNCHANGED <<envVars, dbVars, pdfVars, webVars>>

InitHash ==
    /\ model = "text-embedding-ada-002"
    /\ embDim = 1536
    /\ calls = <<>>
    /\ log = <<>>
    /\ indexExists = FALSE
    /\ sink = {}
    /\ HashIdle
    /\ DbIdle /\ PdfIdle /\ WebIdle

NextHash ==
    \/ HashCallGetHash
    \/ HashCallGetFileHash

SpecHash == InitHash /\ [][NextHash]_vars

\* C8 as stated: for both fingerprint functions a call with an algorithm
\* name that is none of md5, sha1, sha256, sha512 (names are matched without
\* regard to letter case) ends in a ValueError at the caller, and no value,
\* in particular no None, is returned.
C8_UnknownAlgorithmRaises ==
    (hashPc # "idle" /\ Lower(hashCall.algorithm) \notin hash_algorithms) =>
        /\ hashPc = "raised"
        /\ hashResult.kind = "raise"
        /\ hashResult.type = "ValueError"

\* get_hash alone does what C8 says.
GetHashUnknownAlgorithmRaises ==
    (hashPc # "idle" /\ hashCall.fn = "get_hash"
        /\ Lower(hashCall.algorithm) \notin hash_algorithms) =>
        /\ hashPc = "raised"
        /\ hashResult.type = "ValueError"

-----------------------------------------------------------------------------
(* The ids of two database chunks, and the two records in an index keyed   *)
(* by id                                                                   *)

KeyTitles == {<<"A">>, <<"A", "1">>}
KeyIndexes == {0, 1, 10}
KeyTexts == {<<"x">>, <<"0", "x">>}

\* The (title, sequence_index, text) of a chunk
ChunkKeys == [title : KeyTitles, i : KeyIndexes, text : KeyTexts]

KeyRow(k) ==
    [description |-> Description, title |-> k.title, content |-> <<k.text>>,
     format |-> "creole"]

\* lines 295-304 for the chunk with key k
KeyRecord(k) == DbRecord(KeyRow(k), k.i, [page_content |-> k.text])

\* line 295 for the two chunks: id = get_hash((title, i, chunk.page_content))
KeyHash ==
    /\ hashPc = "idle"
    /\ hashResult' = <<RecordId(hashCall[1].title, hashCall[1].i, hashCall[1].text),
                       RecordId(hashCall[2].title, hashCall[2].i, hashCall[2].text)>>
    /\ hashPc' = "returned"
    /\ UNCHANGED <<hashCall, envVars, dbVars, pdfVars, webVars>>

\* lines 296-304 and 389: the two records are assembled and uploaded, the
\* first one first
KeyUpsert ==
    /\ hashPc = "returned"
    /\ sink' = Upsert(sink, <<KeyRecord(hashCall[1]), KeyRecord(hashCall[2])>>)
    /\ hashPc' = "done"
    /\ UNCHANGED <<hashCall, hashResult, model, embDim, indexExists, calls, log,
                   dbVars, pdfVars, webVars>>

InitKeys ==
    /\ model = "text-embedding-ada-002"
    /\ embDim = 1536
    /\ calls = <<>>
    /\ log = <<>>
    /\ indexExists = TRUE
    /\ sink = {}
    /\ hashPc = "idle"
    /\ hashCall \in ChunkKeys \X ChunkKeys
    /\ hashResult = None
    /\ DbIdle /\ PdfIdle /\ WebIdle

NextKeys ==
    \/ KeyHash
    \/ KeyUpsert

SpecKeys == InitKeys /\ [][NextKeys]_vars

\* str(title) + str(sequence_index) + text
KeyConcat(k) == k.title \o StrInt(k.i) \o k.text

\* The sha256 digest of a string fed to the hash in one piece
DigestOfString(str) == HexDigest(HashUpdate(HashNew("sha256"), Encode(str)))

\* C11: the id of a chunk is the digest of str(title)+str(sequence_index)+text
\* and of nothing else: two keys with the same concatenation get the same id
\* (so two different ids come only from different concatenations), and of
\* their two records the index keyed by id keeps one, the later one.
C11_IdIsDigestOfConcatenation ==
    /\ hashPc # "idle" =>
          /\ \A n \in 1..2 : hashResult[n] = DigestOfString(KeyConcat(hashCall[n]))
          /\ KeyConcat(hashCall[1]) = KeyConcat(hashCall[2]) => hashResult[1] = hashResult[2]
          /\ hashResult[1] # hashResult[2] => KeyConcat(hashCall[1]) # KeyConcat(hashCall[2])
    /\ (hashPc = "done" /\ KeyConcat(hashCall[1]) = KeyConcat(hashCall[2])) =>
          /\ Cardinality(sink) = 1
          /\ \A r \in sink : r.title = hashCall[2].title /\ r.content = hashCall[2].text

C11_Witness ==
    /\ hashPc = "done"
    /\ hashCall[1] = [title |-> <<"A", "1">>, i |-> 0, text |-> <<"x">>]
    /\ hashCall[2] = [title |-> <<"A">>, i |-> 10, text |-> <<"x">>]
    /\ hashResult[1] = hashResult[2]
    /\ Cardinality(sink) = 1
    /\ \A r \in sink : r.title = <<"A">>

====
